---- MODULE Spec2Model ----
(***************************************************************************)
(* YouTube downloader (gridian/youtube_downloader): the download session   *)
(* controller, the caption task and the media task of the three revisions. *)
(* v1.0.0_en and v1.0.0_kr are the same code with different message texts  *)
(* and are modelled as one revision, "v1.0.0"; v1.0.1_kr is "v1.0.1".      *)
(* Message texts are given in English (the v1.0.0_en wording where the     *)
(* message exists there, a translation of the v1.0.1_kr wording otherwise).*)
(***************************************************************************)
EXTENDS Naturals, Sequences, FiniteSets, TLC

(* ------------------------------------------------------------------ *)
(* Bounds of the model                                                 *)
(* ------------------------------------------------------------------ *)

\* Number of edits the user makes to the form after the window is built.
MaxEdits == 3

\* Worker threads alive at the same time.
MaxWorkers == 2

Slots == 1 .. MaxWorkers

(* ------------------------------------------------------------------ *)
(* Values                                                              *)
(* ------------------------------------------------------------------ *)

V100 == "v1.0.0"
V101 == "v1.0.1"
Revisions == {V100, V101}

Tasks == <<"caption", "video", "audio">>
TaskSet == {"caption", "video", "audio"}

\* The URL the user pastes; the entry is empty after construction.
SomeUrl == "https://www.youtube.com/watch?v=abc"

\* Title field contents, as sequences of characters: empty, blank, a name.
UserTitles == {<<>>, <<" ">>, <<" ", "M", " ", "y", " ">>}

\* What the metadata lookup (pytube YouTube(url).title) does.
RemoteTitle == "Remote Title"
MetadataOutcomes == {"title", "raises"}

\* datetime.now().strftime('%y%m%d_%H%M')
ClockNow == "250220_1200"

Korean == "Korean"
English == "English"
AllLanguages == "All languages"
Languages == {Korean, English, AllLanguages}

Resolutions == {"2160p", "1080p", "720p"}

DefaultDownloads == "~/Downloads"

\* str(e) of an exception raised by a collaborator.
ErrorText == "network error"

(* ------------------------------------------------------------------ *)
(* Status messages                                                     *)
(* ------------------------------------------------------------------ *)

MsgEnterUrl == "Please enter a URL."
MsgSelectOptions == "Please select download options."
MsgAllCompleted == "All downloads completed!"
MsgPartial == "Some downloads completed."
MsgCaptionDownloading == "Downloading subtitles..."
MsgNoKorean == "No Korean subtitles; nothing downloaded."
MsgNoEnglish == "No English subtitles; nothing downloaded."
MsgNoSubtitles == "No subtitles found; nothing downloaded."
MsgCaptionFailed(e) == "Subtitle download failed: " \o e
MsgMediaFailed(mode, e) == mode \o " download failed: " \o e
MsgErrorOccurred(e) == "Error occurred: " \o e

NameKorean == "Korean"
NameEnglish == "English"
NameEnglishAuto == "English auto-generated"

RECURSIVE Join(_, _)
\* sep.join(names)
Join(names, sep) ==
    IF names = <<>> THEN ""
    ELSE IF Len(names) = 1 THEN names[1]
    ELSE names[1] \o sep \o Join(Tail(names), sep)

\* The status a successful caption task writes (v1.0.1).
MsgCaptionDone(downloaded_subtitles) ==
    IF Len(downloaded_subtitles) = 1
    THEN downloaded_subtitles[1] \o " subtitles downloaded"
    ELSE Join(downloaded_subtitles, " and ") \o " subtitles downloaded"

(* ------------------------------------------------------------------ *)
(* Strings                                                             *)
(* ------------------------------------------------------------------ *)

IsSpace(c) == c \in {" ", "\t", "\n"}

RECURSIVE LStrip(_)
LStrip(s) == IF s # <<>> /\ IsSpace(Head(s)) THEN LStrip(Tail(s)) ELSE s

RECURSIVE RStrip(_)
RStrip(s) ==
    IF s # <<>> /\ IsSpace(s[Len(s)]) THEN RStrip(SubSeq(s, 1, Len(s) - 1)) ELSE s

\* str.strip()
Strip(s) == RStrip(LStrip(s))

RECURSIVE Str(_)
\* The characters of s as one string.
Str(s) == IF s = <<>> THEN "" ELSE Head(s) \o Str(Tail(s))

\* os.path.join(directory, name)
PathJoin(directory, name) == directory \o "/" \o name

(* ------------------------------------------------------------------ *)
(* extract_percent                                                     *)
(* ------------------------------------------------------------------ *)

\* Texts are sequences of characters; Esc stands for the character \x1b.
Esc == "ESC"

Digits == {"0", "1", "2", "3", "4", "5", "6", "7", "8", "9"}

DigitValue(c) ==
    CASE c = "0" -> 0 [] c = "1" -> 1 [] c = "2" -> 2 [] c = "3" -> 3
      [] c = "4" -> 4 [] c = "5" -> 5 [] c = "6" -> 6 [] c = "7" -> 7
      [] c = "8" -> 8 [] c = "9" -> 9

\* A float with a short decimal expansion: mantissa / 10^scale, the
\* mantissa not a multiple of 10 unless the scale is 0.
Float(mantissa, scale) == [mantissa |-> mantissa, scale |-> scale]

Zero == Float(0, 0)

\* The value of a full gauge: set(100).
Hundred == Float(100, 0)

RECURSIVE ParamEnd(_, _)
\* [0-9;]* matched from position i: the position after the match.
ParamEnd(s, i) ==
    IF i <= Len(s) /\ (s[i] \in Digits \/ s[i] = ";")
    THEN ParamEnd(s, i + 1)
    ELSE i

\* Faulty variant: no colour sequence is recognised.
EscapeAtNever(s, i) == FALSE

\* \x1b\[[0-9;]*m matches at position i.
EscapeAt(s, i) ==
    /\ s[i] = Esc
    /\ i + 1 <= Len(s)
    /\ s[i + 1] = "["
    /\ ParamEnd(s, i + 2) <= Len(s)
    /\ s[ParamEnd(s, i + 2)] = "m"

RECURSIVE StripEscapesFrom(_, _)
StripEscapesFrom(s, i) ==
    IF i > Len(s) THEN <<>>
    ELSE IF EscapeAt(s, i)
         THEN StripEscapesFrom(s, ParamEnd(s, i + 2) + 1)
         ELSE <<s[i]>> \o StripEscapesFrom(s, i + 1)

\* Faulty variant: the escape sequences are left in the text.
StripEscapesNone(s) == s

\* re.sub(r'\x1b\[[0-9;]*m', '', percent_str)
StripEscapes(s) == StripEscapesFrom(s, 1)

IsNumeric(c) == c \in Digits \/ c = "."

\* re.sub(r'[^\d.]', '', clean_str)
KeepNumeric(s) == SelectSeq(s, IsNumeric)

RECURSIVE Number(_)
\* The number a sequence of digits writes.
Number(digits) ==
    IF digits = <<>> THEN 0
    ELSE 10 * Number(SubSeq(digits, 1, Len(digits) - 1))
           + DigitValue(digits[Len(digits)])

RECURSIVE DropTrailingZeros(_)
DropTrailingZeros(digits) ==
    IF digits # <<>> /\ digits[Len(digits)] = "0"
    THEN DropTrailingZeros(SubSeq(digits, 1, Len(digits) - 1))
    ELSE digits

IsDot(c) == c = "."
IsDigit(c) == c \in Digits

\* float(text) for a text of digits and decimal points: ValueError unless
\* there is a digit and at most one point.
ParseFloat(text) ==
    LET dots == Len(SelectSeq(text, IsDot))
        point == IF dots = 0 THEN Len(text) + 1
                 ELSE CHOOSE i \in 1 .. Len(text) : text[i] = "."
        whole == SubSeq(text, 1, point - 1)
        frac == DropTrailingZeros(SubSeq(text, point + 1, Len(text)))
    IN  IF dots > 1 \/ SelectSeq(text, IsDigit) = <<>>
        THEN [raises |-> TRUE, value |-> Zero]
        ELSE [raises |-> FALSE,
              value |-> Float(Number(whole \o frac), Len(frac))]

extract_percent(percent_str) ==
    LET clean_str == KeepNumeric(StripEscapes(percent_str))
        parsed == ParseFloat(clean_str)
    IN  IF parsed.raises THEN Zero ELSE parsed.value

\* d['_percent_str'] of the 'downloading' events of a download: the
\* percentage in five columns with one decimal, plain or coloured, or N/A
\* while the size is not known.
HookStrings ==
    {<<" ", " ", "0", ".", "0", "%">>,
     <<" ", "3", "7", ".", "5", "%">>,
     <<Esc, "[", "0", ";", "9", "4", "m", " ", "3", "7", ".", "5", "%",
       Esc, "[", "0", "m">>,
     <<"1", "0", "0", ".", "0", "%">>,
     <<" ", " ", "N", "/", "A", "%">>}

\* percent = self.extract_percent(d['_percent_str']) over these texts.
HookPercents == {extract_percent(d) : d \in HookStrings}

(* ------------------------------------------------------------------ *)
(* format_time                                                         *)
(* ------------------------------------------------------------------ *)

\* Times are IEEE doubles. The double nearest to t/1000 seconds (t whole
\* milliseconds) has 53 significant bits, fracbits of them after the binary
\* point; it is the multiple of 2^-fracbits nearest to t/1000, so it lies
\* below/1000 (or above/1000) units of 2^-fracbits under (over) t/1000,
\* where below = (t * 2^fracbits) mod 1000 when that is under 500 and
\* above = 1000 - (t * 2^fracbits) mod 1000 when it is over 500 (it is never
\* 500: t * 2^fracbits is a multiple of 8).

RECURSIVE ExpUp(_)
\* The largest e with 2^e <= t/1000, for t >= 1000.
ExpUp(t) == IF t >= 2000 THEN 1 + ExpUp(t \div 2) ELSE 0

RECURSIVE ExpDown(_)
\* The smallest n with 2^-n <= t/1000, for 0 < t < 1000.
ExpDown(t) == IF t < 1000 THEN 1 + ExpDown(2 * t) ELSE 0

FracBits(t) ==
    IF t = 0 THEN 0
    ELSE IF t >= 1000 THEN 52 - ExpUp(t) ELSE 52 + ExpDown(t)

RECURSIVE Pow2Mod1000(_)
Pow2Mod1000(n) == IF n = 0 THEN 1 ELSE (2 * Pow2Mod1000(n - 1)) % 1000

\* The double a time of t milliseconds is given as: t / 1000.
Seconds(t) ==
    LET r == ((t % 1000) * Pow2Mod1000(FracBits(t))) % 1000 IN
    [millis |-> t, fracbits |-> FracBits(t),
     below |-> IF r < 500 THEN r ELSE 0,
     above |-> IF r > 500 THEN 1000 - r ELSE 0]

RECURSIVE Log2(_)
\* floor(log2(k)), k >= 1
Log2(k) == IF k >= 2 THEN 1 + Log2(k \div 2) ELSE 0

\* The doubles just under the whole number k are 2^(GapExp(k) - 52) apart.
GapExp(k) == IF k = 2 ^ Log2(k) THEN Log2(k) - 1 ELSE Log2(k)

\* int(fraction * 1000) for a fraction of a second, 0 <= fraction < 1. The
\* product is k + (above - below) * 2^-fracbits exactly, k whole, and is
\* rounded to the nearest double: to k or over it when the fraction was
\* not under k/1000, and also when it was under by no more than half the
\* gap between k and the double before it; otherwise to a double under k,
\* which int() truncates to k - 1.
Milliseconds(fraction) ==
    LET k == fraction.millis
        reach == GapExp(k) + fraction.fracbits IN
    IF k = 0 \/ fraction.below = 0 THEN k
    ELSE IF reach >= 53 /\ fraction.below <= 2 ^ (reach - 53) THEN k
    ELSE k - 1

\* f"{n:02}", f"{n:03}"
Pad2(n) == IF n < 10 THEN "0" \o ToString(n) ELSE ToString(n)
Pad3(n) ==
    IF n < 10 THEN "00" \o ToString(n)
    ELSE IF n < 100 THEN "0" \o ToString(n)
    ELSE ToString(n)

\* divmod by 3600 and by 60 are exact on doubles (fmod is exact), and so
\* is the subtraction of int(seconds).
format_time(seconds) ==
    LET hours == seconds.millis \div 3600000
        remainder == [seconds EXCEPT !.millis = @ % 3600000]
        minutes == remainder.millis \div 60000
        secs == [remainder EXCEPT !.millis = @ % 60000]
        whole == secs.millis \div 1000
        fraction == [secs EXCEPT !.millis = @ % 1000]
        milliseconds == Milliseconds(fraction)
    IN  Pad2(hours) \o ":" \o Pad2(minutes) \o ":" \o Pad2(whole)
            \o "," \o Pad3(milliseconds)

(* ------------------------------------------------------------------ *)
(* Writing the caption file                                            *)
(* ------------------------------------------------------------------ *)

\* A transcript entry: start and duration in milliseconds (the doubles
\* start/1000 and duration/1000), the duration possibly absent, and the
\* text as characters.
Entry(start, has_duration, duration, text) ==
    [start |-> start, has_duration |-> has_duration, duration |-> duration,
     text |-> text]

\* start + duration. The times the model uses are whole seconds, which
\* doubles hold and add exactly.
Plus(start, duration) == start + duration

\* Faulty variant: the newlines are left in the text.
KeepNewlines(text) == text

\* entry['text'].replace('\n', ' ')
ReplaceNewlines(text) ==
    [i \in 1 .. Len(text) |-> IF text[i] = "\n" THEN " " ELSE text[i]]

\* One write of the SRT branch; i counts from 0. The file is a sequence of
\* pieces of text, a newline always a piece of its own.
SrtBlock(i, entry) ==
    LET start == entry.start
        duration == IF entry.has_duration THEN entry.duration ELSE 0
        end == Plus(start, duration)
        text == ReplaceNewlines(entry.text)
    IN  <<ToString(i + 1), "\n",
          format_time(Seconds(start)) \o " --> " \o format_time(Seconds(end)),
          "\n">> \o text \o <<"\n", "\n">>

\* One write of the plain-text branch.
TextLine(entry) == entry.text \o <<"\n">>

RECURSIVE WriteFrom(_, _, _)
WriteFrom(transcript_data, is_srt, i) ==
    IF i >= Len(transcript_data) THEN <<>>
    ELSE (IF is_srt
          THEN SrtBlock(i, transcript_data[i + 1])
          ELSE TextLine(transcript_data[i + 1]))
         \o WriteFrom(transcript_data, is_srt, i + 1)

\* save_caption_to_file: what is written to the file.
save_caption_to_file(transcript_data, is_srt) ==
    WriteFrom(transcript_data, is_srt, 0)

(* ------------------------------------------------------------------ *)
(* The settings file: load_config, save_config                         *)
(* ------------------------------------------------------------------ *)

\* Python values json.load returns.
PyStr(chars) == [type |-> "str", chars |-> chars]
PyNone == [type |-> "NoneType"]
PyList == [type |-> "list"]
PyDict(items) == [type |-> "dict", items |-> items]

\* 'download_path'
KeyChars == <<"d", "o", "w", "n", "l", "o", "a", "d", "_", "p", "a", "t", "h">>

\* os.path.expanduser("~/Downloads"), as characters
DefaultChars == <<"~", "/", "D", "o", "w", "n", "l", "o", "a", "d", "s">>

\* Directories the directory dialog returns.
DirectoryChars == {<<"/", "a">>, <<"C", ":", "\\", "b">>, <<"/", "q", "\"">>}

\* A directory an earlier run stored.
StoredChars == <<"/", "s">>

KnownPaths == DirectoryChars \cup {DefaultChars, StoredChars, <<>>}

\* The characters of a path held in a Tk variable.
CharsOf(path) == CHOOSE chars \in KnownPaths : Str(chars) = path

\* Faulty variant: quotes and backslashes are written as they are.
EscapeNothing(c) == <<c>>

\* json.dump of one character of a string (ensure_ascii=False).
EscapeChar(c) ==
    IF c = "\"" THEN <<"\\", "\"">>
    ELSE IF c = "\\" THEN <<"\\", "\\">>
    ELSE IF c = "\n" THEN <<"\\", "n">>
    ELSE <<c>>

RECURSIVE EscapeAll(_)
EscapeAll(chars) ==
    IF chars = <<>> THEN <<>> ELSE EscapeChar(Head(chars)) \o EscapeAll(Tail(chars))

JsonString(chars) == <<"\"">> \o EscapeAll(chars) \o <<"\"">>

\* json.dump({'download_path': path}, f, ensure_ascii=False, indent=2)
json_dump(path) ==
    <<"{", "\n", " ", " ">> \o JsonString(KeyChars) \o <<":", " ">>
        \o JsonString(path) \o <<"\n", "}">>

Fail == [ok |-> FALSE, value |-> PyNone, next |-> 0]

Parsed(value, next) == [ok |-> TRUE, value |-> value, next |-> next]

RECURSIVE SkipWs(_, _)
SkipWs(text, i) ==
    IF i <= Len(text) /\ text[i] \in {" ", "\n", "\t"} THEN SkipWs(text, i + 1) ELSE i

RECURSIVE ScanString(_, _, _)
\* A JSON string from the character after its opening quote.
ScanString(text, j, chars) ==
    IF j > Len(text) THEN Fail
    ELSE IF text[j] = "\"" THEN Parsed(PyStr(chars), j + 1)
    ELSE IF text[j] = "\\"
         THEN IF j + 1 > Len(text) THEN Fail
              ELSE IF text[j + 1] \in {"\"", "\\", "/"}
                   THEN ScanString(text, j + 2, Append(chars, text[j + 1]))
              ELSE IF text[j + 1] = "n"
                   THEN ScanString(text, j + 2, Append(chars, "\n"))
              ELSE Fail
    ELSE IF text[j] = "\n" THEN Fail
    ELSE ScanString(text, j + 1, Append(chars, text[j]))

RECURSIVE ParseValue(_, _)
RECURSIVE ParseMembers(_, _, _)

\* A JSON value from position at: a string, null, the empty array, or an
\* object of such values (the values the stored files hold).
ParseValue(text, at) ==
    LET i == SkipWs(text, at) IN
    IF i > Len(text) THEN Fail
    ELSE IF text[i] = "\"" THEN ScanString(text, i + 1, <<>>)
    ELSE IF text[i] = "n"
         THEN IF i + 3 <= Len(text) /\ SubSeq(text, i, i + 3) = <<"n", "u", "l", "l">>
              THEN Parsed(PyNone, i + 4)
              ELSE Fail
    ELSE IF text[i] = "["
         THEN IF SkipWs(text, i + 1) <= Len(text) /\ text[SkipWs(text, i + 1)] = "]"
              THEN Parsed(PyList, SkipWs(text, i + 1) + 1)
              ELSE Fail
    ELSE IF text[i] = "{"
         THEN IF SkipWs(text, i + 1) <= Len(text) /\ text[SkipWs(text, i + 1)] = "}"
              THEN Parsed(PyDict(<<>>), SkipWs(text, i + 1) + 1)
              ELSE ParseMembers(text, SkipWs(text, i + 1), <<>>)
    ELSE Fail

\* The members of an object from the key at position i.
ParseMembers(text, i, items) ==
    IF i > Len(text) \/ text[i] # "\"" THEN Fail
    ELSE LET key == ScanString(text, i + 1, <<>>)
             colon == SkipWs(text, key.next)
             value == ParseValue(text, colon + 1)
             after == SkipWs(text, value.next)
             all == Append(items, [key |-> key.value.chars, value |-> value.value])
         IN  IF ~key.ok THEN Fail
             ELSE IF colon > Len(text) \/ text[colon] # ":" THEN Fail
             ELSE IF ~value.ok THEN Fail
             ELSE IF after > Len(text) THEN Fail
             ELSE IF text[after] = "}" THEN Parsed(PyDict(all), after + 1)
             ELSE IF text[after] = ","
                  THEN ParseMembers(text, SkipWs(text, after + 1), all)
             ELSE Fail

\* json.load(f): the value, or JSONDecodeError.
json_load(text) ==
    LET parsed == ParseValue(text, 1) IN
    IF parsed.ok /\ SkipWs(text, parsed.next) > Len(text)
    THEN [raises |-> FALSE, value |-> parsed.value]
    ELSE [raises |-> TRUE, value |-> PyNone]

\* dict.get(key, default); of two members with one key the later counts.
DictGet(items, key, default) ==
    LET found == {i \in 1 .. Len(items) : items[i].key = key} IN
    IF found = {} THEN default
    ELSE items[CHOOSE i \in found : \A j \in found : j <= i].value

\* The settings file with this text.
File(text) == [exists |-> TRUE, readable |-> TRUE, text |-> text]

\* A settings file that open() refuses to read.
Unreadable == [exists |-> TRUE, readable |-> FALSE, text |-> <<>>]

Returned(value) == [raises |-> FALSE, value |-> value]

\* Faulty variant: only the JSON decoding error is caught.
LoadConfigDecodeErrorOnly(file) ==
    IF ~file.exists THEN Returned(PyStr(DefaultChars))
    ELSE IF ~file.readable THEN [raises |-> TRUE, value |-> PyNone]
    ELSE IF json_load(file.text).raises THEN Returned(PyStr(DefaultChars))
    ELSE IF json_load(file.text).value.type # "dict"
         THEN [raises |-> TRUE, value |-> PyNone]
    ELSE Returned(DictGet(json_load(file.text).value.items, KeyChars,
                          PyStr(DefaultChars)))

\* load_config: every exception of open, json.load and config.get is
\* caught (except Exception) and the default is returned.
load_config(file) ==
    IF ~file.exists THEN Returned(PyStr(DefaultChars))
    ELSE IF ~file.readable THEN Returned(PyStr(DefaultChars))
    ELSE IF json_load(file.text).raises THEN Returned(PyStr(DefaultChars))
    ELSE IF json_load(file.text).value.type # "dict"
         THEN Returned(PyStr(DefaultChars))
    ELSE Returned(DictGet(json_load(file.text).value.items, KeyChars,
                          PyStr(DefaultChars)))

\* tk.StringVar(value=...): a string is kept, None leaves the variable empty.
StringVar(value) == IF value.type = "str" THEN Str(value.chars) ELSE ""

\* How a write of the settings file ends: written; open() raised and the
\* file is as it was; open() emptied the file and the write raised.
WriteOutcomes == {"saved", "open_failed", "write_failed"}

\* save_config: what is on disk afterwards. Exceptions are caught.
save_config(path, file, outcome) ==
    CASE outcome = "saved" -> File(json_dump(CharsOf(path)))
      [] outcome = "open_failed" -> file
      [] outcome = "write_failed" -> File(<<>>)

(* ------------------------------------------------------------------ *)
(* The transcript provider and the caption task of v1.0.0              *)
(* ------------------------------------------------------------------ *)

\* Language codes of the tracks a video may have.
LanguageCodes == {"ko", "en", "ja", "fr"}

\* The order in which the provider lists the tracks of one kind.
ProviderOrder == <<"fr", "ja", "en", "ko">>

\* What list_transcripts returns: the languages with a manually created
\* track, those with a generated track, and those whose tracks can be
\* translated.
TranscriptLists ==
    [manually_created : SUBSET LanguageCodes,
     generated : SUBSET LanguageCodes,
     translatable : SUBSET LanguageCodes]

\* The track of the list in that language and of that kind.
Track(available, language_code, is_generated) ==
    [language_code |-> language_code, is_generated |-> is_generated,
     is_translatable |-> language_code \in available.translatable]

NoTrack == [language_code |-> "", is_generated |-> FALSE, is_translatable |-> FALSE]

\* Nothing found: NoTranscriptFound is raised, or the value is None.
NotFound == [found |-> FALSE, track |-> NoTrack]

Found(track) == [found |-> TRUE, track |-> track]

\* The languages of the tracks of one kind.
LanguagesOf(available, is_generated) ==
    IF is_generated THEN available.generated ELSE available.manually_created

RECURSIVE FindTranscript(_, _, _)
\* TranscriptList lookup: the first of language_codes for which a track of
\* one of the kinds exists, the kinds tried in order within a language.
FindTranscript(available, language_codes, kinds) ==
    IF language_codes = <<>> THEN NotFound
    ELSE LET code == Head(language_codes)
             hits == SelectSeq(kinds,
                         LAMBDA g : code \in LanguagesOf(available, g))
         IN  IF hits # <<>>
             THEN Found(Track(available, code, hits[1]))
             ELSE FindTranscript(available, Tail(language_codes), kinds)

\* available_transcripts.find_transcript(language_codes): manually created
\* tracks before generated ones.
find_transcript(available, language_codes) ==
    FindTranscript(available, language_codes, <<FALSE, TRUE>>)

\* available_transcripts.find_generated_transcript(language_codes)
find_generated_transcript(available, language_codes) ==
    FindTranscript(available, language_codes, <<TRUE>>)

\* iter(available_transcripts): the manually created tracks, then the
\* generated ones.
Listed(available) ==
    LET of_kind(g) ==
            LET codes == SelectSeq(ProviderOrder,
                             LAMBDA c : c \in LanguagesOf(available, g))
            IN  [i \in 1 .. Len(codes) |-> Track(available, codes[i], g)]
    IN  of_kind(FALSE) \o of_kind(TRUE)

\* next(iter(available_transcripts), None)
FirstListed(available) ==
    IF Listed(available) = <<>> THEN NotFound ELSE Found(Listed(available)[1])

\* Faulty variant: the first track the provider lists is taken.
SelectFirstListed(available) == FirstListed(available)

\* The track download_caption of v1.0.0 settles on.
SelectTranscript(available) ==
    LET exact == find_transcript(available, <<"ko", "en", "ja">>)
        auto == find_generated_transcript(available, <<"ja", "en">>)
    IN  IF exact.found THEN exact
        ELSE IF auto.found THEN auto
        ELSE FirstListed(available)

\* transcript.translate('en'): the track whose entries are the English
\* translation of the entries of track.
Translated(track) ==
    [language_code |-> "en", is_generated |-> track.is_generated,
     is_translatable |-> track.is_translatable, translation_of |-> track.language_code]

\* A track as the provider lists it, not a translation.
Original(track) ==
    [language_code |-> track.language_code, is_generated |-> track.is_generated,
     is_translatable |-> track.is_translatable, translation_of |-> ""]

\* Faulty variant: the entries of the chosen track are fetched untranslated.
FetchedUntranslated(track) == Original(track)

\* `if transcript.is_translatable: transcript = transcript.translate('en')`:
\* the track whose entries are fetched.
Fetched(track) ==
    IF track.is_translatable THEN Translated(track) ELSE Original(track)

\* What the calls of one caption task do: the listing returns the list or
\* raises; translate, fetch and the writing of the file return or raise.
ProviderRuns ==
    [list_ok : BOOLEAN, available : TranscriptLists,
     translate_ok : BOOLEAN, fetch_ok : BOOLEAN, write_ok : BOOLEAN]

\* The caption task failed: the handler reports the exception.
CaptionFailed100(chosen, source, file) ==
    [ok |-> FALSE, chosen |-> chosen, source |-> source,
     file |-> file, said |-> <<MsgCaptionFailed(ErrorText)>>, gauge_set |-> FALSE]

\* download_caption of v1.0.0: the track chosen, the track whose entries
\* were written, the state of the file ("none", "partial", "complete"),
\* the status written and whether the gauge was set to 100.
download_caption_v100(run) ==
    LET chosen == SelectTranscript(run.available) IN
    IF ~run.list_ok THEN CaptionFailed100(NoTrack, Original(NoTrack), "none")
    ELSE IF ~chosen.found THEN CaptionFailed100(NoTrack, Original(NoTrack), "none")
    ELSE IF chosen.track.is_translatable /\ ~run.translate_ok
         THEN CaptionFailed100(chosen.track, Original(NoTrack), "none")
    ELSE IF ~run.fetch_ok THEN CaptionFailed100(chosen.track, Original(NoTrack), "none")
    ELSE IF ~run.write_ok THEN CaptionFailed100(chosen.track, Fetched(chosen.track), "partial")
    ELSE [ok |-> TRUE, chosen |-> chosen.track, source |-> Fetched(chosen.track),
          file |-> "complete", said |-> <<>>, gauge_set |-> TRUE]

\* Whether the file was written, over everything the provider can do.
CaptionWritten100 == {download_caption_v100(run).ok : run \in ProviderRuns}

(* ------------------------------------------------------------------ *)
(* State                                                               *)
(* ------------------------------------------------------------------ *)

VARIABLES
    rev,        \* the revision running
    ui,         \* the form: url entry and the Tk variables the user edits
    edits,      \* edits made to the form so far
    status,     \* text of the status label
    progress,   \* the three gauges
    workers,    \* worker threads: the locals of start_download / run_tasks
    event,      \* what the last UI handler did (on the UI thread)
    disk,       \* the settings file (CONFIG_FILE)
    call        \* a call of one of the helper functions: argument and result

vars == <<rev, ui, edits, status, progress, workers, event, disk, call>>

\* No helper function is being looked at.
NoCall == [op |-> "none"]

\* os.path.exists(CONFIG_FILE) is false.
NoFile == [exists |-> FALSE]

NoEvent == [handler |-> "none", outcome |-> "none", lookups |-> 0, metadata |-> "none"]

\* What the controls of a form show for a download: the values a session
\* started from this form was asked for.
Request(form) ==
    [options |-> [t \in TaskSet |->
                     CASE t = "caption" -> form.sub_check
                       [] t = "video" -> form.video_check
                       [] t = "audio" -> form.audio_check],
     resolution |-> form.resolution, is_srt |-> form.srt_check,
     language |-> form.language, title |-> form.title]

NoRequest ==
    [options |-> [t \in TaskSet |-> FALSE], resolution |-> "", is_srt |-> FALSE,
     language |-> "", title |-> <<>>]

NoFlags == [t \in TaskSet |-> FALSE]
NoOutcome == [t \in TaskSet |-> "none"]

\* A slot with no thread in it.
IdleWorker ==
    [pc |-> "idle", options_selected |-> NoFlags, safe_title |-> "",
     is_srt |-> FALSE, selected_language |-> "", downloaded_subtitles |-> <<>>,
     target |-> [path |-> "", format |-> ""],
     success |-> NoFlags, outcome |-> NoOutcome,
     attempts |-> <<>>, log |-> <<>>, written |-> {}, request |-> NoRequest]

\* setup_variables: the form after construction.
InitialForm ==
    [url |-> "", title |-> <<>>,
     sub_check |-> TRUE, video_check |-> TRUE, audio_check |-> FALSE,
     srt_check |-> FALSE,  \* no widget is bound to srt_check
     resolution |-> "2160p", language |-> Korean,
     download_path |-> DefaultDownloads]

Init ==
    /\ rev \in Revisions
    /\ ui = InitialForm
    /\ edits = 0
    /\ status = ""
    /\ progress = [t \in TaskSet |-> Zero]
    /\ workers = [s \in Slots |-> IdleWorker]
    /\ event = NoEvent
    /\ disk = NoFile
    /\ call = NoCall

\* update_status(message) called from worker s.
Say(w, message) == [w EXCEPT !.log = Append(@, message)]

(* ------------------------------------------------------------------ *)
(* The user edits the form (Tk variables bound to the widgets)         *)
(* ------------------------------------------------------------------ *)

Edit(form) ==
    /\ edits < MaxEdits
    /\ form # ui
    /\ ui' = form
    /\ edits' = edits + 1
    /\ event' = NoEvent
    /\ UNCHANGED <<rev, status, progress, workers, disk, call>>

EditUrl == \E u \in {"", SomeUrl} : Edit([ui EXCEPT !.url = u])

EditTitle == \E t \in UserTitles : Edit([ui EXCEPT !.title = t])

ToggleSub == Edit([ui EXCEPT !.sub_check = ~@])

ToggleVideo == Edit([ui EXCEPT !.video_check = ~@])

ToggleAudio == Edit([ui EXCEPT !.audio_check = ~@])

SelectResolution == \E r \in Resolutions : Edit([ui EXCEPT !.resolution = r])

\* The language dropdown exists in v1.0.1 only (read-only combobox).
SelectLanguage ==
    /\ rev = V101
    /\ \E l \in Languages : Edit([ui EXCEPT !.language = l])

(* ------------------------------------------------------------------ *)
(* start_download (UI thread)                                          *)
(* ------------------------------------------------------------------ *)

\* Faulty variant: the title is used as typed, without strip().
GetSafeFilenameUntrimmed(title, meta, now) ==
    IF title # <<>>
    THEN [name |-> Str(title), lookups |-> 0]
    ELSE IF meta = "title"
         THEN [name |-> RemoteTitle, lookups |-> 1]
         ELSE [name |-> "download_" \o now, lookups |-> 1]

\* get_safe_filename: the name and the number of metadata lookups made.
GetSafeFilename(title, meta, now) ==
    IF Strip(title) # <<>>
    THEN [name |-> Str(Strip(title)), lookups |-> 0]
    ELSE IF meta = "title"
         THEN [name |-> RemoteTitle, lookups |-> 1]
         ELSE [name |-> "download_" \o now, lookups |-> 1]

\* Faulty variant: the URL guard is missing.
UrlNeverMissing(url) == FALSE

\* `if not url`
UrlMissing(url) == url = ""

\* options_selected (v1.0.1); the tasks appended to `tasks` (v1.0.0).
OptionsSelected(form) ==
    [t \in TaskSet |->
        CASE t = "caption" -> form.sub_check
          [] t = "video" -> form.video_check
          [] t = "audio" -> form.audio_check]

\* Faulty variant: the options guard is missing.
AnySelectedAlways(opts) == TRUE

\* any(options_selected.values()); `tasks` non-empty.
AnySelected(opts) == \E t \in TaskSet : opts[t]

\* What the click did; metadata: how the lookup it made, if any, ended.
Clicked(outcome, r, meta) ==
    [handler |-> "start_download", outcome |-> outcome, lookups |-> r.lookups,
     metadata |-> IF r.lookups = 0 THEN "none" ELSE meta]

\* The locals run_tasks closes over, and the thread at its first line;
\* request: the form as it was when the button was clicked.
NewWorker(opts, name, form) ==
    [IdleWorker EXCEPT !.pc = "caption", !.options_selected = opts,
                       !.safe_title = name, !.request = Request(form)]

FreeSlots == {s \in Slots : workers[s].pc = "idle"}
FirstFree == CHOOSE s \in FreeSlots : \A r \in FreeSlots : s <= r

\* The guard on the URL: report and return.
StartDownloadNoUrl ==
    /\ UrlMissing(ui.url)
    /\ status' = MsgEnterUrl
    /\ event' = Clicked("empty_url", [lookups |-> 0], "none")
    /\ UNCHANGED <<rev, ui, edits, progress, workers, disk, call>>

\* The guard on the options, reached after the file name is resolved.
StartDownloadNoOptions ==
    /\ ~UrlMissing(ui.url)
    /\ \E meta \in MetadataOutcomes :
         LET r == GetSafeFilename(ui.title, meta, ClockNow) IN
         /\ ~AnySelected(OptionsSelected(ui))
         /\ status' = MsgSelectOptions
         /\ event' = Clicked("no_options", r, meta)
    /\ UNCHANGED <<rev, ui, edits, progress, workers, disk, call>>

NoWorkerAlive == \A s \in Slots : workers[s].pc = "idle"

\* Faulty variant: the click is refused while a session is running.
StartDownloadGuarded ==
    /\ NoWorkerAlive
    /\ ~UrlMissing(ui.url)
    /\ \E meta \in MetadataOutcomes :
         LET r == GetSafeFilename(ui.title, meta, ClockNow)
             opts == OptionsSelected(ui) IN
         /\ AnySelected(opts)
         /\ workers' = [workers EXCEPT ![FirstFree] = NewWorker(opts, r.name, ui)]
         /\ event' = Clicked("started", r, meta)
    /\ UNCHANGED <<rev, ui, edits, status, progress, disk, call>>

\* threading.Thread(target=run_tasks, daemon=True).start()
StartDownloadRun ==
    /\ ~UrlMissing(ui.url)
    /\ FreeSlots # {}
    /\ \E meta \in MetadataOutcomes :
         LET r == GetSafeFilename(ui.title, meta, ClockNow)
             opts == OptionsSelected(ui) IN
         /\ AnySelected(opts)
         /\ workers' = [workers EXCEPT ![FirstFree] = NewWorker(opts, r.name, ui)]
         /\ event' = Clicked("started", r, meta)
    /\ UNCHANGED <<rev, ui, edits, status, progress, disk, call>>

\* The user of Spec waits for the running download before starting another.
StartDownloadWhenIdle == NoWorkerAlive /\ StartDownloadRun

StartDownload ==
    \/ StartDownloadNoUrl
    \/ StartDownloadNoOptions
    \/ StartDownloadRun

(* ------------------------------------------------------------------ *)
(* The worker thread: run_tasks and the tasks it calls                 *)
(* ------------------------------------------------------------------ *)

\* One step of worker s, leaving it as w2 and the gauges as gauges; the
\* status label shows the last message the step wrote, if it wrote one.
WorkerStep(s, w2, gauges) ==
    /\ workers' = [workers EXCEPT ![s] = w2]
    /\ status' = IF Len(w2.log) > Len(workers[s].log)
                 THEN w2.log[Len(w2.log)]
                 ELSE status
    /\ progress' = gauges
    /\ event' = NoEvent
    /\ UNCHANGED <<rev, ui, edits, disk, call>>

\* Faulty variant: the audio task is run before the video task.
NextPcAudioFirst(task) ==
    CASE task = "caption" -> "audio"
      [] task = "audio" -> "video"
      [] task = "video" -> "finish"

\* Faulty variant: the worker blocks for good after the audio task.
NextPcBlocked(task) ==
    CASE task = "caption" -> "video"
      [] task = "video" -> "audio"
      [] task = "audio" -> "blocked"

NextPc(task) ==
    CASE task = "caption" -> "video"
      [] task = "video" -> "audio"
      [] task = "audio" -> "finish"

InPc(task) == "in_" \o task

FileExt(mode) == IF mode = "video" THEN "mp4" ELSE "mp3"

\* resolution_var.get().replace('p', '')
Height(resolution) ==
    CASE resolution = "2160p" -> "2160"
      [] resolution = "1080p" -> "1080"
      [] resolution = "720p" -> "720"

\* ydl_opts['format']
Format(mode, resolution) ==
    IF mode = "video"
    THEN "bv*[height<=" \o Height(resolution) \o "]+ba/b[height<="
             \o Height(resolution) \o "]"
    ELSE "bestaudio/best"

\* The file the media download leaves: outtmpl with the merged/extracted
\* extension.
MediaPath(form, safe_title, mode) ==
    PathJoin(form.download_path, safe_title \o "." \o FileExt(mode))

\* Faulty variant: the language suffix is left out of the file name.
CaptionPathNoSuffix(file_path, is_srt, suffix) ==
    file_path \o "." \o (IF is_srt THEN "srt" ELSE "txt")

\* save_caption_to_file: full_path.
CaptionPath(file_path, is_srt, suffix) ==
    file_path \o suffix \o "." \o (IF is_srt THEN "srt" ELSE "txt")

\* `if options_selected[task]` is false (v1.0.1); the task is not in
\* `tasks` (v1.0.0).
SkipTask(s, task) ==
    LET w == workers[s] IN
    /\ w.pc = task
    /\ ~w.options_selected[task]
    /\ WorkerStep(s, [w EXCEPT !.pc = NextPc(task)], progress)

\* run_tasks calls download_caption(video_id, url, safe_title,
\* self.srt_check.get()); v1.0.1 first writes the "downloading" status.
EnterCaption(s) ==
    LET w == workers[s]
        w1 == [w EXCEPT !.pc = InPc("caption"),
                        !.attempts = Append(@, "caption"),
                        !.is_srt = ui.srt_check] IN
    /\ w.pc = "caption"
    /\ w.options_selected["caption"]
    /\ WorkerStep(s, IF rev = V101 THEN Say(w1, MsgCaptionDownloading) ELSE w1,
                  progress)

\* Faulty variant: the Korean failure is reported whatever the language choice.
KoreanFailureAlwaysSaid(selected_language) == <<MsgNoKorean>>

\* The except branch of the Korean attempt.
KoreanFailureSaid(selected_language) ==
    IF selected_language = Korean THEN <<MsgNoKorean>> ELSE <<>>

\* Faulty variant: the English failure is reported whatever the language choice.
EnglishFailureAlwaysSaid(selected_language) == <<MsgNoEnglish>>

\* The except branch of the auto-generated English attempt.
EnglishFailureSaid(selected_language) ==
    IF selected_language = English THEN <<MsgNoEnglish>> ELSE <<>>

\* The result message of download_caption (v1.0.1).
CaptionResultSaid(downloaded_subtitles, selected_language) ==
    IF downloaded_subtitles # <<>>
    THEN <<MsgCaptionDone(downloaded_subtitles)>>
    ELSE IF selected_language = AllLanguages
         THEN <<MsgNoSubtitles>>
         ELSE <<>>

\* How one attempt (find, fetch, save, append) of the caption task ends:
\* the file was written to its end; find or fetch raised; the file was
\* opened and the writing raised part of the way.
AttemptOutcomes == {"saved", "raised", "write_raised"}

\* What the calls of one caption task of v1.0.1 do.
LanguageRuns ==
    [list_ok : BOOLEAN, selected_language : Languages,
     ko : AttemptOutcomes, en : AttemptOutcomes, auto : AttemptOutcomes]

\* Faulty variant: the task reports success once it has tried a language.
ReturnsTrueAlways(downloaded_subtitles) == TRUE

\* `if downloaded_subtitles:` ... return True, else return False.
ReturnsTrue(downloaded_subtitles) == downloaded_subtitles # <<>>

\* Faulty variant: the generated English track is fetched whatever the
\* English attempt did.
AutoAlwaysTried(try_en, en) == try_en

\* The generated English track is looked up in the except branch of the
\* English attempt.
AutoTried(try_en, en) == try_en /\ en # "saved"

\* download_caption of v1.0.1 from list_transcripts on: the attempts made,
\* the files written to their end and those left part-written, the list of
\* downloaded subtitles, the messages written, the value the gauge is set
\* to and the value returned.
download_caption_v101(run, file_path, is_srt) ==
    LET selected_language == run.selected_language
        try_ko == selected_language \in {Korean, AllLanguages}
        try_en == selected_language \in {English, AllLanguages}
        try_auto == AutoTried(try_en, run.en)
        got_ko == try_ko /\ run.ko = "saved"
        got_en == try_en /\ run.en = "saved"
        got_auto == try_auto /\ run.auto = "saved"
        path_ko == CaptionPath(file_path, is_srt, "_kr")
        path_en == CaptionPath(file_path, is_srt, "_en")
        path_auto == CaptionPath(file_path, is_srt, "_auto_en")
        downloaded_subtitles ==
            (IF got_ko THEN <<NameKorean>> ELSE <<>>)
            \o (IF got_en THEN <<NameEnglish>> ELSE <<>>)
            \o (IF got_auto THEN <<NameEnglishAuto>> ELSE <<>>)
        said ==
            (IF try_ko /\ ~got_ko THEN KoreanFailureSaid(selected_language) ELSE <<>>)
            \o (IF try_auto /\ ~got_auto
                THEN EnglishFailureSaid(selected_language) ELSE <<>>)
            \o CaptionResultSaid(downloaded_subtitles, selected_language)
        ok == ReturnsTrue(downloaded_subtitles)
    IN  IF ~run.list_ok
        THEN [listed |-> FALSE, attempted |-> <<>>, files |-> {}, partial |-> {},
              downloaded_subtitles |-> <<>>,
              said |-> <<MsgCaptionFailed(ErrorText)>>, gauge |-> Zero,
              returned |-> FALSE]
        ELSE [listed |-> TRUE,
              attempted |-> (IF try_ko THEN <<"ko">> ELSE <<>>)
                            \o (IF try_en THEN <<"en">> ELSE <<>>)
                            \o (IF try_auto THEN <<"auto_en">> ELSE <<>>),
              files |-> (IF got_ko THEN {path_ko} ELSE {})
                        \cup (IF got_en THEN {path_en} ELSE {})
                        \cup (IF got_auto THEN {path_auto} ELSE {}),
              partial |-> (IF try_ko /\ run.ko = "write_raised" THEN {path_ko} ELSE {})
                          \cup (IF try_en /\ run.en = "write_raised"
                                THEN {path_en} ELSE {})
                          \cup (IF try_auto /\ run.auto = "write_raised"
                                THEN {path_auto} ELSE {}),
              downloaded_subtitles |-> downloaded_subtitles,
              said |-> said,
              gauge |-> IF ok THEN Hundred ELSE Zero,
              returned |-> ok]

\* The outcomes of an attempt that a session tells apart: a file left
\* part-written changes nothing in run_tasks that a raising fetch does not.
SessionOutcomes == {"saved", "raised"}

\* The caption task of v1.0.1 in a session: what it leaves in the locals of
\* run_tasks and in the caption gauge.
DownloadCaption101(w, form, list_ok, ko, en, auto) ==
    LET r == download_caption_v101(
                 [list_ok |-> list_ok, selected_language |-> form.language,
                  ko |-> ko, en |-> en, auto |-> auto],
                 PathJoin(form.download_path, w.safe_title), w.is_srt)
    IN  [worker |-> [w EXCEPT !.log = @ \o r.said,
                              !.selected_language =
                                  IF r.listed THEN form.language ELSE @,
                              !.downloaded_subtitles = r.downloaded_subtitles,
                              !.written = @ \cup r.files,
                              !.success["caption"] = r.returned,
                              !.outcome["caption"] =
                                  IF r.files # {} THEN "ok" ELSE "failed"],
         gauge |-> r.gauge]

ReturnCaption101(s) ==
    LET w == workers[s] IN
    /\ rev = V101
    /\ w.pc = InPc("caption")
    /\ \E list_ok \in BOOLEAN, ko, en, auto \in SessionOutcomes :
         LET r == DownloadCaption101(w, ui, list_ok, ko, en, auto) IN
         WorkerStep(s, [r.worker EXCEPT !.pc = NextPc("caption")],
                    [progress EXCEPT !["caption"] = r.gauge])

\* download_caption of v1.0.0 in a session: one file, no return value; every
\* exception is caught and reported in the status. ok: the file was written.
DownloadCaption100(w, form, ok) ==
    LET file_ext == IF w.is_srt THEN "srt" ELSE "txt"
        file_path == PathJoin(form.download_path, w.safe_title \o "." \o file_ext)
    IN  IF ok
        THEN [worker |-> [w EXCEPT !.written = @ \cup {file_path},
                                   !.outcome["caption"] = "ok"],
              gauge |-> Hundred]
        ELSE [worker |-> [w EXCEPT !.log = Append(@, MsgCaptionFailed(ErrorText)),
                                   !.outcome["caption"] = "failed"],
              gauge |-> progress["caption"]]

ReturnCaption100(s) ==
    LET w == workers[s] IN
    /\ rev = V100
    /\ w.pc = InPc("caption")
    /\ \E ok \in CaptionWritten100 :
         LET r == DownloadCaption100(w, ui, ok) IN
         WorkerStep(s, [r.worker EXCEPT !.pc = NextPc("caption")],
                    [progress EXCEPT !["caption"] = r.gauge])

Modes == {"video", "audio"}

\* run_tasks calls download_video_audio(url, safe_title, mode), which
\* reads the resolution and the download directory and starts yt-dlp.
EnterMedia(s, mode) ==
    LET w == workers[s] IN
    /\ w.pc = mode
    /\ w.options_selected[mode]
    /\ WorkerStep(s, [w EXCEPT !.pc = InPc(mode),
                               !.attempts = Append(@, mode),
                               !.target = [path |-> MediaPath(ui, w.safe_title, mode),
                                           format |-> Format(mode, ui.resolution)]],
                  progress)

\* progress_hook(mode): a 'downloading' event.
HookDownloading(s, mode) ==
    LET w == workers[s] IN
    /\ w.pc = InPc(mode)
    /\ \E percent \in HookPercents :
         WorkerStep(s, w, [progress EXCEPT ![mode] = percent])

\* progress_hook(mode): a 'finished' event.
HookFinished(s, mode) ==
    LET w == workers[s] IN
    /\ w.pc = InPc(mode)
    /\ WorkerStep(s, w, [progress EXCEPT ![mode] = Hundred])

\* download_video_audio of v1.0.1 once yt-dlp has returned (ok) or raised:
\* the exception is caught, reported and turned into False.
DownloadVideoAudio101(w, mode, ok) ==
    IF ok
    THEN [w EXCEPT !.written = @ \cup {w.target.path},
                   !.success[mode] = TRUE,
                   !.outcome[mode] = "ok",
                   !.pc = NextPc(mode)]
    ELSE [w EXCEPT !.log = Append(@, MsgMediaFailed(mode, ErrorText)),
                   !.success[mode] = FALSE,
                   !.outcome[mode] = "failed",
                   !.pc = NextPc(mode)]

\* download_video_audio of v1.0.0 has no handler: the exception leaves the
\* task loop and is caught by run_tasks, which reports it and ends.
DownloadVideoAudio100(w, mode, ok) ==
    IF ok
    THEN [w EXCEPT !.written = @ \cup {w.target.path},
                   !.outcome[mode] = "ok",
                   !.pc = NextPc(mode)]
    ELSE [w EXCEPT !.log = Append(@, MsgErrorOccurred(ErrorText)),
                   !.outcome[mode] = "failed",
                   !.pc = "done"]

ReturnMedia(s, mode) ==
    LET w == workers[s] IN
    /\ w.pc = InPc(mode)
    /\ \E ok \in BOOLEAN :
         WorkerStep(s, IF rev = V101
                       THEN DownloadVideoAudio101(w, mode, ok)
                       ELSE DownloadVideoAudio100(w, mode, ok),
                    progress)

\* only_caption_failed
OnlyCaptionFailed(opts, success) ==
    /\ opts["caption"] /\ ~success["caption"]
    /\ ~opts["video"] /\ ~opts["audio"]

\* all(success[opt] for opt, selected in options_selected.items() if selected)
AllSelectedSucceeded(opts, success) ==
    \A t \in TaskSet : opts[t] => success[t]

\* Faulty variant: the caption task counts towards partial completion.
HasAnySuccess(opts, success) == \E t \in TaskSet : opts[t] /\ success[t]

\* any(success[opt] for opt, selected in ... if selected and opt != 'caption')
HasOtherSuccess(opts, success) ==
    \E t \in TaskSet : opts[t] /\ t # "caption" /\ success[t]

\* Faulty variant: completion is reported whatever the tasks returned.
SummaryAlwaysCompleted(opts, success) == <<MsgAllCompleted>>

\* Faulty variant: a run in which not everything succeeded is always
\* reported as partly completed.
SummaryAlwaysAggregate(opts, success) ==
    IF OnlyCaptionFailed(opts, success) THEN <<>>
    ELSE IF AllSelectedSucceeded(opts, success) THEN <<MsgAllCompleted>>
    ELSE <<MsgPartial>>

\* The aggregate messages run_tasks writes after the tasks.
Summary101(opts, success) ==
    IF OnlyCaptionFailed(opts, success) THEN <<>>
    ELSE IF AllSelectedSucceeded(opts, success) THEN <<MsgAllCompleted>>
    ELSE IF HasOtherSuccess(opts, success) THEN <<MsgPartial>>
    ELSE <<>>

\* v1.0.0: the loop over the tasks ended without an exception.
Summary100(opts, success) == <<MsgAllCompleted>>

Finish(s) ==
    LET w == workers[s]
        said == IF rev = V101
                THEN Summary101(w.options_selected, w.success)
                ELSE Summary100(w.options_selected, w.success) IN
    /\ w.pc = "finish"
    /\ WorkerStep(s, [w EXCEPT !.log = @ \o said, !.pc = "done"], progress)

\* The thread ends; its locals are gone.
ThreadExit(s) ==
    /\ workers[s].pc = "done"
    /\ WorkerStep(s, IdleWorker, progress)

(* ------------------------------------------------------------------ *)
(* Specification                                                       *)
(* ------------------------------------------------------------------ *)

Next ==
    \/ EditUrl
    \/ EditTitle
    \/ ToggleSub
    \/ ToggleVideo
    \/ ToggleAudio
    \/ SelectResolution
    \/ SelectLanguage
    \/ StartDownloadNoUrl
    \/ StartDownloadNoOptions
    \/ StartDownloadWhenIdle
    \/ \E s \in Slots, t \in TaskSet : SkipTask(s, t)
    \/ \E s \in Slots : EnterCaption(s)
    \/ \E s \in Slots : ReturnCaption101(s)
    \/ \E s \in Slots : ReturnCaption100(s)
    \/ \E s \in Slots, m \in Modes : EnterMedia(s, m)
    \/ \E s \in Slots, m \in Modes : HookDownloading(s, m)
    \/ \E s \in Slots, m \in Modes : HookFinished(s, m)
    \/ \E s \in Slots, m \in Modes : ReturnMedia(s, m)
    \/ \E s \in Slots : Finish(s)
    \/ \E s \in Slots : ThreadExit(s)

Spec == Init /\ [][Next]_vars

\* The next step of run_tasks in worker s: the thread is scheduled, and a
\* call it waits for returns or raises.
Advance(s) ==
    \/ \E t \in TaskSet : SkipTask(s, t)
    \/ EnterCaption(s)
    \/ ReturnCaption101(s)
    \/ ReturnCaption100(s)
    \/ \E m \in Modes : EnterMedia(s, m)
    \/ \E m \in Modes : ReturnMedia(s, m)
    \/ Finish(s)
    \/ ThreadExit(s)

\* Forms the user may have filled in before a series of downloads: a URL,
\* any choice of options and language, the title blank or given.
SessionForms ==
    {[InitialForm EXCEPT !.url = SomeUrl, !.title = title,
                         !.sub_check = sub, !.video_check = video,
                         !.audio_check = audio, !.language = language] :
        title \in {<<>>, <<"M", "y">>}, sub \in BOOLEAN, video \in BOOLEAN,
        audio \in BOOLEAN, language \in Languages}

InitSessions ==
    /\ rev \in Revisions
    /\ ui \in SessionForms
    /\ rev = V100 => ui.language = Korean
    /\ edits = 0
    /\ status = ""
    /\ progress = [t \in TaskSet |-> Zero]
    /\ workers = [s \in Slots |-> IdleWorker]
    /\ event = NoEvent
    /\ disk = NoFile
    /\ call = NoCall

\* Downloads one after the other from a form that is left as it is.
NextSessions ==
    \/ StartDownloadNoOptions
    \/ StartDownloadWhenIdle
    \/ \E s \in Slots : Advance(s)
    \/ \E s \in Slots, m \in Modes : HookDownloading(s, m)
    \/ \E s \in Slots, m \in Modes : HookFinished(s, m)

\* The threads keep running and the calls come back.
SpecSessions ==
    InitSessions /\ [][NextSessions]_vars /\ \A s \in Slots : WF_vars(Advance(s))

\* The impatient user: the form is filled in once (URL pasted; captions
\* alone or the video alone) and start is clicked again while downloads
\* are running.
PreparedForms ==
    {[InitialForm EXCEPT !.url = SomeUrl, !.sub_check = c, !.video_check = ~c] :
        c \in BOOLEAN}

InitConcurrent ==
    /\ rev \in Revisions
    /\ ui \in PreparedForms
    /\ edits = 0
    /\ status = ""
    /\ progress = [t \in TaskSet |-> Zero]
    /\ workers = [s \in Slots |-> IdleWorker]
    /\ event = NoEvent
    /\ disk = NoFile
    /\ call = NoCall

NextConcurrent ==
    \/ StartDownloadRun
    \/ \E s \in Slots, t \in TaskSet : SkipTask(s, t)
    \/ \E s \in Slots : EnterCaption(s)
    \/ \E s \in Slots : ReturnCaption101(s)
    \/ \E s \in Slots : ReturnCaption100(s)
    \/ \E s \in Slots, m \in Modes : EnterMedia(s, m)
    \/ \E s \in Slots, m \in Modes : HookDownloading(s, m)
    \/ \E s \in Slots, m \in Modes : HookFinished(s, m)
    \/ \E s \in Slots, m \in Modes : ReturnMedia(s, m)
    \/ \E s \in Slots : Finish(s)
    \/ \E s \in Slots : ThreadExit(s)

SpecConcurrent == InitConcurrent /\ [][NextConcurrent]_vars

(* ------------------------------------------------------------------ *)
(* The helper functions on their own                                   *)
(* ------------------------------------------------------------------ *)

\* The window as built, nothing clicked.
Quiet ==
    /\ rev \in Revisions
    /\ ui = InitialForm
    /\ edits = 0
    /\ status = ""
    /\ progress = [t \in TaskSet |-> Zero]
    /\ workers = [s \in Slots |-> IdleWorker]
    /\ event = NoEvent
    /\ disk = NoFile

\* Length of the progress texts made of arbitrary characters.
MaxChars == 3

Texts(alphabet, n) == UNION {[1 .. k -> alphabet] : k \in 0 .. n}

\* One percentage as yt-dlp writes it, and the value the text stands for;
\* the last three stand for no number.
PercentCores ==
    {[text |-> <<"0">>, value |-> Zero],
     [text |-> <<"7">>, value |-> Float(7, 0)],
     [text |-> <<"0", ".", "0">>, value |-> Zero],
     [text |-> <<"3", "7", ".", "5">>, value |-> Float(375, 1)],
     [text |-> <<"1", "0", "0">>, value |-> Float(100, 0)],
     [text |-> <<"1", "0", "0", ".", "0">>, value |-> Float(100, 0)],
     [text |-> <<>>, value |-> Zero],
     [text |-> <<".">>, value |-> Zero],
     [text |-> <<"1", ".", "2", ".", "3">>, value |-> Zero]}

\* What surrounds and interrupts the percentage: colour sequences and
\* characters that are neither digits nor points.
Decorations ==
    {<<>>, <<" ">>, <<"%">>,
     <<Esc, "[", "m">>, <<Esc, "[", "0", "m">>,
     <<Esc, "[", "0", ";", "3", "2", "m">>}

\* The text of core c cut after k characters, with decorations around.
Decorated(c, k) ==
    {[text |-> pre \o SubSeq(c.text, 1, k) \o mid
                   \o SubSeq(c.text, k + 1, Len(c.text)) \o post,
      value |-> c.value] :
        pre \in Decorations, mid \in Decorations, post \in Decorations}

DecoratedPercents ==
    UNION {UNION {Decorated(c, k) : k \in 0 .. Len(c.text)} : c \in PercentCores}

PercentAlphabet == {Esc, "[", ";", "m", "3", ".", "%"}

\* d['_percent_str'] of a 'downloading' event. known: the text is a
\* decorated percentage whose value is expect.
PercentCalls ==
    {[op |-> "extract_percent", arg |-> d.text, known |-> TRUE,
      expect |-> d.value, done |-> FALSE, result |-> Zero] :
        d \in DecoratedPercents}
    \cup {[op |-> "extract_percent", arg |-> t, known |-> FALSE,
           expect |-> Zero, done |-> FALSE, result |-> Zero] :
             t \in Texts(PercentAlphabet, MaxChars)}

InitPercent == Quiet /\ call \in PercentCalls

\* percent = self.extract_percent(d['_percent_str'])
ExtractPercentCall ==
    /\ call.op = "extract_percent"
    /\ ~call.done
    /\ call' = [call EXCEPT !.done = TRUE, !.result = extract_percent(call.arg)]
    /\ UNCHANGED <<rev, ui, edits, status, progress, workers, event, disk>>

NextPercent == ExtractPercentCall

SpecPercent == InitPercent /\ [][NextPercent]_vars

\* Times up to this many milliseconds are formatted, and a few long ones.
MaxMillis == 1100

TimeInputs == (0 .. MaxMillis) \cup {59999, 60000, 3599999, 3600000, 3725250}

InitTime ==
    /\ Quiet
    /\ call \in {[op |-> "format_time", arg |-> t, done |-> FALSE, result |-> ""] :
                    t \in TimeInputs}

\* self.format_time(start) with start = arg / 1000
FormatTimeCall ==
    /\ call.op = "format_time"
    /\ ~call.done
    /\ call' = [call EXCEPT !.done = TRUE, !.result = format_time(Seconds(call.arg))]
    /\ UNCHANGED <<rev, ui, edits, status, progress, workers, event, disk>>

NextTime == FormatTimeCall

SpecTime == InitTime /\ [][NextTime]_vars

\* Entries of a transcript.
MaxEntries == 2

EntryTexts == {<<>>, <<"H", "i">>, <<"B", "y", "e">>, <<"a", "\n", "b">>}

Entries ==
    {Entry(start, has_duration, IF has_duration THEN duration ELSE 0, text) :
        start \in {0, 2000}, has_duration \in BOOLEAN,
        duration \in {2000, 3000}, text \in EntryTexts}

Transcripts == UNION {[1 .. n -> Entries] : n \in 0 .. MaxEntries}

InitCaptionFile ==
    /\ Quiet
    /\ call \in {[op |-> "save_caption_to_file", arg |-> data, is_srt |-> is_srt,
                   done |-> FALSE, result |-> <<>>] :
                    data \in Transcripts, is_srt \in BOOLEAN}

\* self.save_caption_to_file(transcript_data, file_path, is_srt, suffix)
SaveCaptionCall ==
    /\ call.op = "save_caption_to_file"
    /\ ~call.done
    /\ call' = [call EXCEPT !.done = TRUE,
                            !.result = save_caption_to_file(call.arg, call.is_srt)]
    /\ UNCHANGED <<rev, ui, edits, status, progress, workers, event, disk>>

NextCaptionFile == SaveCaptionCall

SpecCaptionFile == InitCaptionFile /\ [][NextCaptionFile]_vars

\* The caption task of v1.0.0 against everything the provider can do.
InitCaptionTask ==
    /\ Quiet
    /\ rev = V100
    /\ call \in {[op |-> "download_caption", arg |-> run, done |-> FALSE,
                   result |-> CaptionFailed100(NoTrack, Original(NoTrack), "none")] :
                    run \in ProviderRuns}

\* self.download_caption(video_id, url, safe_title, is_srt) of v1.0.0
DownloadCaptionCall ==
    /\ call.op = "download_caption"
    /\ ~call.done
    /\ call' = [call EXCEPT !.done = TRUE, !.result = download_caption_v100(call.arg)]
    /\ UNCHANGED <<rev, ui, edits, status, progress, workers, event, disk>>

NextCaptionTask == DownloadCaptionCall

SpecCaptionTask == InitCaptionTask /\ [][NextCaptionTask]_vars

\* The file path without suffix and extension the caption task is given.
SomeBase == PathJoin(DefaultDownloads, "My")

\* The caption task of v1.0.1 against everything its calls can do.
InitCaptionLanguages ==
    /\ Quiet
    /\ rev = V101
    /\ call \in {[op |-> "download_caption_v101", arg |-> run, is_srt |-> is_srt,
                   done |-> FALSE,
                   result |-> download_caption_v101(
                                  [run EXCEPT !.list_ok = FALSE], SomeBase, is_srt)] :
                    run \in LanguageRuns, is_srt \in BOOLEAN}

\* self.download_caption(video_id, url, safe_title, is_srt) of v1.0.1
DownloadCaptionLanguagesCall ==
    /\ call.op = "download_caption_v101"
    /\ ~call.done
    /\ call' = [call EXCEPT !.done = TRUE,
                            !.result = download_caption_v101(call.arg, SomeBase,
                                                             call.is_srt)]
    /\ UNCHANGED <<rev, ui, edits, status, progress, workers, event, disk>>

NextCaptionLanguages == DownloadCaptionLanguagesCall

SpecCaptionLanguages == InitCaptionLanguages /\ [][NextCaptionLanguages]_vars

(* ------------------------------------------------------------------ *)
(* The settings over runs of the program                               *)
(* ------------------------------------------------------------------ *)

\* Settings files the program may find, what they are, and the value
\* stored under 'download_path' where there is one.
Stored(file, kind, value) == [file |-> file, kind |-> kind, value |-> value]

OtherKey == <<"t", "h", "e", "m", "e">>

StoredFiles ==
    {Stored(NoFile, "missing", PyNone),
     Stored(Unreadable, "unreadable", PyNone),
     Stored(File(<<>>), "malformed", PyNone),
     Stored(File(SubSeq(json_dump(StoredChars), 1, 24)), "malformed", PyNone),
     Stored(File(<<"{", "}", "}">>), "malformed", PyNone),
     Stored(File(<<"[", "]">>), "not an object", PyNone),
     Stored(File(<<"n", "u", "l", "l">>), "not an object", PyNone),
     Stored(File(JsonString(StoredChars)), "not an object", PyNone),
     Stored(File(<<"{", "}">>), "no key", PyNone),
     Stored(File(<<"{">> \o JsonString(OtherKey) \o <<":">>
                  \o JsonString(StoredChars) \o <<"}">>), "no key", PyNone),
     Stored(File(<<"{">> \o JsonString(OtherKey) \o <<":", "[", "]", ",">>
                  \o JsonString(KeyChars) \o <<":">> \o JsonString(StoredChars)
                  \o <<"}">>), "stored", PyStr(StoredChars)),
     Stored(File(<<"{">> \o JsonString(KeyChars) \o <<":", "n", "u", "l", "l", "}">>),
            "stored", PyNone)}
    \cup {Stored(File(json_dump(path)), "stored", PyStr(path)) :
            path \in KnownPaths}

\* An event of the settings handlers.
Handled(handler, outcome) ==
    [handler |-> handler, outcome |-> outcome, lookups |-> 0, metadata |-> "none"]

\* __init__ -> setup_variables: download_path = StringVar(value=load_config())
Loaded(file) == [op |-> "load_config", arg |-> file, result |-> load_config(file)]

InitSettings ==
    /\ rev \in Revisions
    /\ disk \in {f.file : f \in StoredFiles}
    /\ call = Loaded(disk)
    /\ ui = [InitialForm EXCEPT !.download_path = StringVar(load_config(disk).value)]
    /\ edits = 0
    /\ status = ""
    /\ progress = [t \in TaskSet |-> Zero]
    /\ workers = [s \in Slots |-> IdleWorker]
    /\ event = NoEvent

AppOpen == call.op = "load_config"

\* select_download_path: an empty answer of the dialog (cancel) changes
\* nothing; a directory is set and saved.
SelectDownloadPath ==
    /\ AppOpen
    /\ \E folder_selected \in DirectoryChars \cup {<<>>}, outcome \in WriteOutcomes :
         IF folder_selected = <<>>
         THEN /\ ui' = ui
              /\ disk' = disk
              /\ event' = Handled("select_download_path", "cancelled")
         ELSE /\ ui' = [ui EXCEPT !.download_path = Str(folder_selected)]
              /\ disk' = save_config(Str(folder_selected), disk, outcome)
              /\ event' = Handled("select_download_path", outcome)
    /\ UNCHANGED <<rev, edits, status, progress, workers, call>>

\* on_closing: save_config(), quit()
OnClosing ==
    /\ AppOpen
    /\ \E outcome \in WriteOutcomes :
         /\ disk' = save_config(ui.download_path, disk, outcome)
         /\ event' = Handled("on_closing", outcome)
    /\ call' = [op |-> "closed"]
    /\ UNCHANGED <<rev, ui, edits, status, progress, workers>>

\* The program is started again.
Launch ==
    /\ call.op = "closed"
    /\ call' = Loaded(disk)
    /\ ui' = [InitialForm EXCEPT !.download_path = StringVar(load_config(disk).value)]
    /\ event' = Handled("__init__", "loaded")
    /\ UNCHANGED <<rev, edits, status, progress, workers, disk>>

NextSettings ==
    \/ SelectDownloadPath
    \/ OnClosing
    \/ Launch

SpecSettings == InitSettings /\ [][NextSettings]_vars

(* ------------------------------------------------------------------ *)
(* Properties                                                          *)
(* ------------------------------------------------------------------ *)

Range(seq) == {seq[i] : i \in 1 .. Len(seq)}

\* The last message a session wrote to the status label.
FinalStatus(w) == IF w.log = <<>> THEN "" ELSE w.log[Len(w.log)]

Finished(w) == w.pc = "done"

\* Every selected task did its work (its file was written).
EverySelectedSucceeded(w) ==
    \A t \in TaskSet : w.options_selected[t] => w.outcome[t] = "ok"

Times(seq, x) == Cardinality({i \in 1 .. Len(seq) : seq[i] = x})

TaskIndex(t) == CHOOSE i \in 1 .. 3 : Tasks[i] = t

\* C1: in every revision a finished session's final status is the
\* full-completion message if and only if every selected task succeeded.
\* Violated by v1.0.0, whose caption task swallows its failure.
C1_CompletedIffAllSucceeded ==
    \A s \in Slots :
        Finished(workers[s]) =>
            (FinalStatus(workers[s]) = MsgAllCompleted
                <=> EverySelectedSucceeded(workers[s]))

\* C2: in every revision each selected task has been attempted exactly once
\* when the session ends, whatever the earlier tasks did. Violated by
\* v1.0.0, where a failing media task ends the task loop.
C2_EverySelectedTaskAttemptedOnce ==
    \A s \in Slots :
        Finished(workers[s]) =>
            \A t \in TaskSet :
                workers[s].options_selected[t] => Times(workers[s].attempts, t) = 1

\* C3: the tasks of a session start in the order caption, video, audio,
\* each one only after every task started before it has returned, and only
\* selected tasks start.
C3_TasksInOrderOneAtATime ==
    \A s \in Slots :
        LET w == workers[s]
            n == Len(w.attempts) IN
        /\ \A i, j \in 1 .. n :
               i < j => TaskIndex(w.attempts[i]) < TaskIndex(w.attempts[j])
        /\ \A i \in 1 .. n : w.options_selected[w.attempts[i]]
        /\ \A i \in 1 .. n : i < n => w.outcome[w.attempts[i]] # "none"
        /\ \A t \in TaskSet :
               (w.outcome[t] = "none" /\ Times(w.attempts, t) > 0)
                   <=> w.pc = InPc(t)

\* A session running its third task after the first two have returned.
C3_Witness ==
    \E s \in Slots :
        /\ workers[s].pc = InPc("audio")
        /\ workers[s].attempts = Tasks
        /\ workers[s].outcome["caption"] # "none"
        /\ workers[s].outcome["video"] # "none"

\* The step was a click on the start button.
ClickStep == event'.handler = "start_download"

NoOptionOnForm == ~(ui.sub_check \/ ui.video_check \/ ui.audio_check)

\* C4: a click with a URL and no option selected writes the "select a
\* download option" status and starts no worker: no task runs, no file
\* is written, no gauge moves.
C4_NoOptionsGuard ==
    [][(ClickStep /\ ui.url # "" /\ NoOptionOnForm)
          => /\ status' = MsgSelectOptions
             /\ workers' = workers
             /\ progress' = progress]_vars

\* The state right after such a click.
C4_Witness ==
    /\ event.handler = "start_download"
    /\ ui.url # ""
    /\ NoOptionOnForm
    /\ status = MsgSelectOptions
    /\ \A s \in Slots : workers[s].pc = "idle"

\* C5: a click with an empty URL writes the "enter a URL" status, makes no
\* metadata lookup and starts no worker, whatever is selected, also when
\* nothing is selected.
C5_EmptyUrlGuard ==
    [][(ClickStep /\ ui.url = "")
          => /\ status' = MsgEnterUrl
             /\ event'.lookups = 0
             /\ workers' = workers
             /\ progress' = progress]_vars

\* The state right after a click with an empty URL and nothing selected.
C5_Witness ==
    /\ event.handler = "start_download"
    /\ ui.url = ""
    /\ NoOptionOnForm
    /\ status = MsgEnterUrl
    /\ \A s \in Slots : workers[s].pc = "idle"

CaptionOnly(w) ==
    /\ w.options_selected["caption"]
    /\ ~w.options_selected["video"]
    /\ ~w.options_selected["audio"]

CaptionFailureMessages ==
    {MsgNoKorean, MsgNoEnglish, MsgNoSubtitles, MsgCaptionFailed(ErrorText)}

\* C6: in v1.0.1 a finished caption-only session whose caption task failed
\* wrote neither aggregate message, and its final status is one of the
\* caption task's failure messages.
C6_CaptionOnlyFailure ==
    \A s \in Slots :
        LET w == workers[s] IN
        (rev = V101 /\ Finished(w) /\ CaptionOnly(w) /\ w.outcome["caption"] = "failed")
            => /\ MsgAllCompleted \notin Range(w.log)
               /\ MsgPartial \notin Range(w.log)
               /\ FinalStatus(w) \in CaptionFailureMessages
               /\ w.written = {}

C6_Witness ==
    \E s \in Slots :
        LET w == workers[s] IN
        /\ rev = V101 /\ Finished(w) /\ CaptionOnly(w)
        /\ w.outcome["caption"] = "failed"
        /\ FinalStatus(w) = MsgNoSubtitles

OtherTaskSucceeded(w) ==
    \E t \in Modes : w.options_selected[t] /\ w.outcome[t] = "ok"

\* C7: in v1.0.1 a finished session in which not every selected task
\* succeeded ends with the partial-completion message if and only if a
\* selected video or audio task succeeded.
C7_PartialIffOtherSucceeded ==
    \A s \in Slots :
        LET w == workers[s] IN
        (rev = V101 /\ Finished(w) /\ ~EverySelectedSucceeded(w))
            => (FinalStatus(w) = MsgPartial <=> OtherTaskSucceeded(w))

\* Caption failed, video succeeded: partial completion.
C7_Witness ==
    \E s \in Slots :
        LET w == workers[s] IN
        /\ rev = V101 /\ Finished(w)
        /\ w.outcome["caption"] = "failed"
        /\ w.outcome["video"] = "ok"
        /\ FinalStatus(w) = MsgPartial

\* The caption task of w has just returned to run_tasks.
CaptionJustReturned(w) == w.pc = "video" /\ w.attempts = <<"caption">>

\* C8: in v1.0.1 with "all languages", when Korean fails and an English
\* attempt succeeds the caption task returns success, leaves the status
\* naming the English variant alone, and never wrote a failure message.
C8_AllLanguagesEnglishOnly ==
    \A s \in Slots :
        LET w == workers[s] IN
        (/\ rev = V101
         /\ CaptionJustReturned(w)
         /\ w.selected_language = AllLanguages
         /\ w.downloaded_subtitles \in {<<NameEnglish>>, <<NameEnglishAuto>>})
            => /\ w.success["caption"]
               /\ FinalStatus(w) = w.downloaded_subtitles[1] \o " subtitles downloaded"
               /\ w.log = <<MsgCaptionDownloading, FinalStatus(w)>>
               /\ MsgNoKorean \notin Range(w.log)

C8_Witness ==
    \E s \in Slots :
        LET w == workers[s] IN
        /\ rev = V101
        /\ CaptionJustReturned(w)
        /\ w.selected_language = AllLanguages
        /\ w.downloaded_subtitles = <<NameEnglishAuto>>
        /\ FinalStatus(w) = "English auto-generated subtitles downloaded"

\* The failure message the language choice calls for.
FailureMessageFor(language) ==
    CASE language = Korean -> MsgNoKorean
      [] language = English -> MsgNoEnglish
      [] language = AllLanguages -> MsgNoSubtitles

\* C9 as stated: whenever the v1.0.1 caption task wrote no file, the status
\* it leaves is the failure message of the language choice. Violated when
\* the transcript listing raises: the status is then the error report.
C9_FailureStatusByLanguageAlone ==
    \A s \in Slots :
        LET w == workers[s] IN
        (rev = V101 /\ CaptionJustReturned(w) /\ w.written = {})
            => \E l \in Languages :
                   /\ w.selected_language \in {l, ""}
                   /\ FinalStatus(w) = FailureMessageFor(l)

\* C9 amended: when the listing returned and the caption task wrote no
\* file, the status is the failure message of the language read; under
\* "all languages" no language-specific failure message was written. When
\* the listing raised, the status is the error report.
C9_FailureStatusAfterListing ==
    \A s \in Slots :
        LET w == workers[s] IN
        (rev = V101 /\ CaptionJustReturned(w) /\ w.written = {})
            => IF w.selected_language = ""
               THEN FinalStatus(w) = MsgCaptionFailed(ErrorText)
               ELSE /\ FinalStatus(w) = FailureMessageFor(w.selected_language)
                    /\ w.selected_language = AllLanguages
                           => /\ MsgNoKorean \notin Range(w.log)
                              /\ MsgNoEnglish \notin Range(w.log)
                    /\ ~w.success["caption"]

C9_Witness ==
    \E s \in Slots :
        LET w == workers[s] IN
        /\ rev = V101 /\ CaptionJustReturned(w) /\ w.written = {}
        /\ w.selected_language = English
        /\ FinalStatus(w) = MsgNoEnglish

\* The paths a session with this base name may write, by revision.
ArtifactPaths(base) ==
    {PathJoin(DefaultDownloads, base \o "." \o FileExt(m)) : m \in Modes}
    \cup {PathJoin(DefaultDownloads, base \o sfx \o "." \o ext) :
            sfx \in (IF rev = V101 THEN {"_kr", "_en", "_auto_en"} ELSE {""}),
            ext \in {"srt", "txt"}}

\* Tasks of w that wrote their file.
Succeeded(w) == {m \in Modes : w.outcome[m] = "ok"}

\* C10: the caption files of a v1.0.1 session have pairwise distinct paths
\* (one per language written, and distinct from the media files); every
\* artifact of a session is named from the session's base name; the base
\* name is the one resolved by the click and never changes afterwards,
\* whatever happens to the title field. The files are looked at on the
\* steps that change the worker: no other step changes what it wrote.
C10_DistinctPathsStableBase ==
    [][\A s \in Slots :
         LET w == workers[s]
             v == workers'[s] IN
         /\ (w.pc = "idle" /\ v.pc # "idle")
                => v.safe_title \in
                     {GetSafeFilename(ui.title, m, ClockNow).name :
                        m \in MetadataOutcomes}
         /\ (w.pc # "idle" /\ v.pc # "idle") => v.safe_title = w.safe_title
         /\ v.written # w.written => v.written \subseteq ArtifactPaths(v.safe_title)
         /\ (rev = V101 /\ v # w) =>
                Cardinality(v.written)
                    = Len(v.downloaded_subtitles) + Cardinality(Succeeded(v))]_vars

\* A finished v1.0.1 session that wrote two caption files and the video
\* while the title field was changed to another name.
C10_Witness ==
    \E s \in Slots :
        LET w == workers[s] IN
        /\ rev = V101 /\ Finished(w)
        /\ w.downloaded_subtitles = <<NameKorean, NameEnglish>>
        /\ w.outcome["video"] = "ok"
        /\ Cardinality(w.written) = 3
        /\ Strip(ui.title) # <<>>
        /\ Str(Strip(ui.title)) # w.safe_title

\* C11: every task of a session uses the values the form held when start
\* was clicked: the selected kinds, the base name, the resolution of the
\* media format, the caption format flag and the caption language. Violated:
\* the resolution and the language are read from the form when their task
\* starts, so an edit made while the session runs reaches the session.
C11_RequestImmutable ==
    \A s \in Slots :
        LET w == workers[s]
            q == w.request IN
        w.pc # "idle" =>
            /\ w.options_selected = q.options
            /\ \E m \in MetadataOutcomes :
                   w.safe_title = GetSafeFilename(q.title, m, ClockNow).name
            /\ \A m \in Modes :
                   w.pc = InPc(m) => w.target.format = Format(m, q.resolution)
            /\ Times(w.attempts, "caption") > 0 => w.is_srt = q.is_srt
            /\ w.selected_language # "" => w.selected_language = q.language

\* Sessions alive and not yet finished.
Running == {s \in Slots : workers[s].pc \notin {"idle", "done"}}

\* C12: start_download has no guard against a running session. A click
\* with a URL and an option selected is accepted whatever the other
\* sessions are doing (here: as long as the model has a thread slot left);
\* an accepted click starts exactly one new worker and leaves every other
\* worker as it was; no step ends a running session other than its own
\* run to completion, and nothing the user does changes a running worker.
C12_NoGuardNoCancel ==
    /\ []((ui.url # "" /\ AnySelected(OptionsSelected(ui)) /\ FreeSlots # {})
             => ENABLED StartDownloadRun)
    /\ [][(ClickStep /\ event'.outcome = "started")
             => \E s \in Slots :
                    /\ workers[s].pc = "idle"
                    /\ workers'[s].pc = "caption"
                    /\ \A r \in Slots \ {s} : workers'[r] = workers[r]]_vars
    /\ [][\A s \in Running :
             /\ workers'[s].pc # "idle"
             /\ ClickStep => workers'[s] = workers[s]]_vars

\* Two sessions started from the same form are both downloading the video
\* to the same path.
C12_Witness ==
    \E s, r \in Slots :
        /\ s # r
        /\ workers[s].pc = InPc("video")
        /\ workers[r].pc = InPc("video")
        /\ workers[s].target.path = workers[r].target.path
        /\ workers[s].safe_title = workers[r].safe_title

\* C13: in every revision the media task hands its outcome back to
\* run_tasks as a boolean. When it is left, control is at the statement
\* after the call; it returned success if the download ended normally, and
\* if the downloader raised it returned failure after writing a status
\* that holds the error text. Violated by v1.0.0, whose media task has no
\* exception handler and no return value.
C13_MediaReturnsBoolean ==
    [][\A s \in Slots, m \in Modes :
         (workers[s].pc = InPc(m) /\ workers'[s].pc # InPc(m))
            => /\ workers'[s].pc = NextPc(m)
               /\ workers'[s].outcome[m] = "ok" => workers'[s].success[m]
               /\ workers'[s].outcome[m] = "failed"
                      => /\ ~workers'[s].success[m]
                         /\ FinalStatus(workers'[s]) = MsgMediaFailed(m, ErrorText)]_vars

\* The base name the click resolved: that of the worker it started.
ResolvedName(name) ==
    \E s \in Slots :
        /\ workers[s].pc = "idle"
        /\ workers'[s].pc = "caption"
        /\ workers'[s].safe_title = name

\* C14: a click that gets past the URL guard always resolves a base name
\* (the click ends at the options guard or starts a worker). A title that
\* is not blank gives the trimmed title and no metadata lookup; a blank or
\* empty title gives one lookup, and the remote title if the lookup
\* returned, `download_<YYMMDD_HHMM>` if it raised.
C14_FilenamePriority ==
    [][(ClickStep /\ ui.url # "")
          => /\ event'.outcome \in {"started", "no_options"}
             /\ IF Strip(ui.title) # <<>>
                THEN /\ event'.lookups = 0
                     /\ event'.outcome = "started"
                            => ResolvedName(Str(Strip(ui.title)))
                ELSE /\ event'.lookups = 1
                     /\ (event'.outcome = "started" /\ event'.metadata = "title")
                            => ResolvedName(RemoteTitle)
                     /\ (event'.outcome = "started" /\ event'.metadata = "raises")
                            => ResolvedName("download_" \o ClockNow)]_vars

\* A click with a whitespace-only title whose lookup raised: the session
\* is named after the clock.
C14_Witness ==
    /\ event.handler = "start_download"
    /\ event.outcome = "started"
    /\ event.metadata = "raises"
    /\ ui.title = <<" ">>
    /\ \E s \in Slots : /\ workers[s].pc = "caption"
                         /\ workers[s].safe_title = "download_250220_1200"

\* C15: extract_percent returns the value of the percentage a text carries,
\* whatever colour sequences and non-numeric characters surround or
\* interrupt it (the digits of the colour sequences do not count), and it
\* returns 0.0 for a text without digits and for a text with more than
\* one decimal point.
C15_ExtractPercent ==
    (call.op = "extract_percent" /\ call.done)
        => /\ call.known => call.result = call.expect
           /\ SelectSeq(call.arg, IsDigit) = <<>> => call.result = Zero
           /\ Len(SelectSeq(call.arg, IsDot)) > 1 => call.result = Zero

\* A coloured "37.5%" gave 37.5.
C15_Witness ==
    /\ call.op = "extract_percent"
    /\ call.done
    /\ call.arg = <<Esc, "[", "0", ";", "3", "2", "m", "3", "7", ".", "5",
                    "%", Esc, "[", "0", "m">>
    /\ call.result = Float(375, 1)

\* HH:MM:SS,mmm of t milliseconds by integer arithmetic.
Timestamp(t) ==
    Pad2(t \div 3600000) \o ":" \o Pad2((t \div 60000) % 60) \o ":"
        \o Pad2((t \div 1000) % 60) \o "," \o Pad3(t % 1000)

\* C18: for every whole number of milliseconds t, format_time(t/1000) is
\* HH:MM:SS,mmm with HH = t div 3600000, MM = (t div 60000) mod 60,
\* SS = (t div 1000) mod 60 and mmm = t mod 1000. Violated: the fraction
\* of a second is a double under the decimal it stands for (1.001), and
\* the truncation after the multiplication by 1000 loses a millisecond.
C18_FormatTimeExact ==
    (call.op = "format_time" /\ call.done) => call.result = Timestamp(call.arg)

RECURSIVE LinesFrom(_, _, _)
LinesFrom(content, i, line) ==
    IF i > Len(content) THEN <<>>
    ELSE IF content[i] = "\n"
         THEN <<line>> \o LinesFrom(content, i + 1, "")
         ELSE LinesFrom(content, i + 1, line \o content[i])

\* The newline-terminated lines of a file.
Lines(content) == LinesFrom(content, 1, "")

EndsWithNewline(content) == content = <<>> \/ content[Len(content)] = "\n"

\* The text of an entry on one line: its newlines as spaces.
OneLine(text) ==
    Str([i \in 1 .. Len(text) |-> IF text[i] = "\n" THEN " " ELSE text[i]])

\* C16: the SRT file of n entries is n blocks of four lines in entry
\* order: the number k, `format_time(start) --> format_time(start +
\* duration)` with an absent duration taken as 0, the text with its
\* newlines as spaces, and an empty line.
C16_SrtBlocks ==
    (call.op = "save_caption_to_file" /\ call.done /\ call.is_srt)
        => LET n == Len(call.arg)
               lines == Lines(call.result) IN
           /\ EndsWithNewline(call.result)
           /\ Len(lines) = 4 * n
           /\ \A k \in 1 .. n :
                  LET entry == call.arg[k]
                      end == entry.start
                               + (IF entry.has_duration THEN entry.duration ELSE 0) IN
                  /\ lines[4 * k - 3] = ToString(k)
                  /\ lines[4 * k - 2] = format_time(Seconds(entry.start)) \o " --> "
                                            \o format_time(Seconds(end))
                  /\ lines[4 * k - 1] = OneLine(entry.text)
                  /\ lines[4 * k] = ""

\* The entries (0, 2, "Hi"), (2, 3, "Bye") written as two blocks.
C16_Witness ==
    /\ call.op = "save_caption_to_file"
    /\ call.done
    /\ call.is_srt
    /\ call.arg = <<Entry(0, TRUE, 2000, <<"H", "i">>),
                    Entry(2000, TRUE, 3000, <<"B", "y", "e">>)>>
    /\ Lines(call.result)
           = <<"1", "00:00:00,000 --> 00:00:02,000", "Hi", "",
               "2", "00:00:02,000 --> 00:00:05,000", "Bye", "">>

\* C17: the plain-text file of n entries is n newline-terminated lines,
\* the k-th being the text of the k-th entry. Violated by an entry whose
\* text holds a newline: it is written as it is and takes two lines.
C17_OneLinePerEntry ==
    (call.op = "save_caption_to_file" /\ call.done /\ ~call.is_srt)
        => LET n == Len(call.arg)
               lines == Lines(call.result) IN
           /\ EndsWithNewline(call.result)
           /\ Len(lines) = n
           /\ \A k \in 1 .. n : lines[k] = Str(call.arg[k].text)

Persisted == load_config(disk) = Returned(PyStr(CharsOf(ui.download_path)))

\* C20: a cancelled directory dialog leaves the path in memory and the
\* settings file as they were; after a directory selection whose write
\* succeeded, and after an exit whose write succeeded, the settings file
\* holds the path in memory, and the next start of the program loads it.
C20_SettingsRoundTrip ==
    /\ [][(event'.handler = "select_download_path" /\ event'.outcome = "cancelled")
             => (ui' = ui /\ disk' = disk)]_vars
    /\ []((event.handler \in {"select_download_path", "on_closing"}
              /\ event.outcome = "saved") => Persisted)
    /\ [][(event.handler = "on_closing" /\ event.outcome = "saved"
              /\ event'.handler = "__init__")
             => ui'.download_path = ui.download_path]_vars

\* A directory with a backslash was selected and saved, the program was
\* closed and started again: the directory is back.
C20_Witness ==
    /\ event.handler = "__init__"
    /\ ui.download_path = Str(<<"C", ":", "\\", "b">>)
    /\ call.result = Returned(PyStr(<<"C", ":", "\\", "b">>))
    /\ disk = File(json_dump(<<"C", ":", "\\", "b">>))

\* The languages looked up first, and those looked up among the generated
\* tracks next, in the order of the lookups.
PriorityLanguages == <<"ko", "en", "ja">>

GeneratedLanguages == <<"ja", "en">>

Position(seq, x) == CHOOSE i \in 1 .. Len(seq) : seq[i] = x

\* The priority of a track under the selection policy, 1 the highest: a
\* track in ko, en or ja by its language; then a generated track in ja or
\* en; then any other track.
Priority(track) ==
    IF track.language_code \in Range(PriorityLanguages)
    THEN Position(PriorityLanguages, track.language_code)
    ELSE IF track.is_generated /\ track.language_code \in Range(GeneratedLanguages)
         THEN 3 + Position(GeneratedLanguages, track.language_code)
         ELSE 6

\* The caption task of v1.0.0 has run against some provider.
CaptionTaskDone == call.op = "download_caption" /\ call.done

C22_TranslatedWhenTranslatable ==
    (CaptionTaskDone /\ call.result.file # "none") =>
        LET chosen == call.result.chosen
            source == call.result.source IN
        /\ chosen.is_translatable =>
              /\ source.language_code = "en"
              /\ source.translation_of = chosen.language_code
        /\ ~chosen.is_translatable =>
              /\ source.language_code = chosen.language_code
              /\ source.translation_of = ""

\* A Korean track made by hand is found and is translatable: the file holds
\* its English translation.
C22_Witness ==
    /\ CaptionTaskDone
    /\ call.result.file = "complete"
    /\ call.result.chosen.language_code = "ko"
    /\ ~call.result.chosen.is_generated
    /\ call.result.chosen.is_translatable
    /\ call.result.source.language_code = "en"
    /\ call.result.source.translation_of = "ko"

\* C23: no collaborator is called on the UI thread: the click handler makes
\* no metadata lookup, and the listing, the fetch and the media download
\* belong to worker steps. Violated: start_download resolves the file name,
\* and with it the remote title, before it starts the thread.
C23_CollaboratorsOffUiThread ==
    event.handler = "start_download" => event.lookups = 0

\* C24: a click with a URL and no option selected makes no metadata lookup
\* before it reports "select a download option". Violated when the title
\* field is blank: the file name is resolved before the options are looked
\* at.
C24_NoLookupWithoutOptions ==
    (event.handler = "start_download" /\ event.outcome = "no_options")
        => event.lookups = 0

\* The selected tasks of w that failed.
FailedTasks(w) == {t \in TaskSet : w.options_selected[t] /\ w.outcome[t] = "failed"}

\* The one of them that ran last.
LastFailed(w) ==
    CHOOSE t \in FailedTasks(w) : \A u \in FailedTasks(w) : TaskIndex(u) <= TaskIndex(t)

\* The failure messages task t writes.
FailureMessages(t) ==
    IF t = "caption" THEN CaptionFailureMessages ELSE {MsgMediaFailed(t, ErrorText)}

\* C25: in v1.0.1 a finished session in which a selected task failed, no
\* selected video or audio task succeeded and something besides captions was
\* selected wrote neither aggregate message: its final status is the
\* failure message of the last selected task that failed.
C25_NoAggregateLastFailure ==
    \A s \in Slots :
        LET w == workers[s] IN
        (/\ rev = V101
         /\ Finished(w)
         /\ FailedTasks(w) # {}
         /\ ~OtherTaskSucceeded(w)
         /\ ~CaptionOnly(w))
            => /\ MsgAllCompleted \notin Range(w.log)
               /\ MsgPartial \notin Range(w.log)
               /\ FinalStatus(w) \in FailureMessages(LastFailed(w))

\* Captions succeeded and the video failed: the video failure message stays.
C25_Witness ==
    \E s \in Slots :
        LET w == workers[s] IN
        /\ rev = V101 /\ Finished(w)
        /\ w.outcome["caption"] = "ok"
        /\ w.outcome["video"] = "failed"
        /\ ~w.options_selected["audio"]
        /\ FinalStatus(w) = MsgMediaFailed("video", ErrorText)

\* The caption task of v1.0.1 has run.
LanguagesTaskDone == call.op = "download_caption_v101" /\ call.done

\* The three files a caption task of v1.0.1 may write.
KoreanFile == CaptionPath(SomeBase, call.is_srt, "_kr")

EnglishFile == CaptionPath(SomeBase, call.is_srt, "_en")

AutoEnglishFile == CaptionPath(SomeBase, call.is_srt, "_auto_en")

\* The status that lists the languages of these files, Korean first.
StatusListing(files) ==
    LET names == (IF KoreanFile \in files THEN <<"Korean">> ELSE <<>>)
                 \o (IF EnglishFile \in files THEN <<"English">> ELSE <<>>)
                 \o (IF AutoEnglishFile \in files
                     THEN <<"English auto-generated">> ELSE <<>>)
    IN  Join(names, " and ") \o " subtitles downloaded"

\* C26: the caption task of v1.0.1 returns success exactly when it wrote a
\* subtitle file to its end; on success the gauge is set to 100 and the last
\* status lists the languages written, Korean before English, joined by
\* "and"; on every failure the gauge is set to 0.
C26_CaptionSuccessIffFileWritten ==
    LanguagesTaskDone =>
        LET r == call.result IN
        /\ r.returned <=> r.files # {}
        /\ r.returned =>
              /\ r.gauge = Hundred
              /\ r.said # <<>>
              /\ r.said[Len(r.said)] = StatusListing(r.files)
        /\ ~r.returned => r.gauge = Zero

\* "All languages": Korean is written, the writing of the English file
\* breaks off, the generated English track is written.
C26_Witness ==
    /\ LanguagesTaskDone
    /\ call.arg.selected_language = AllLanguages
    /\ call.result.returned
    /\ call.result.files = {KoreanFile, AutoEnglishFile}
    /\ call.result.partial = {EnglishFile}
    /\ call.result.said =
           <<"Korean and English auto-generated subtitles downloaded">>

RECURSIVE Pow10(_)
Pow10(n) == IF n = 0 THEN 1 ELSE 10 * Pow10(n - 1)

\* 0 <= value <= 100
InGaugeRange(value) ==
    /\ value.mantissa >= 0
    /\ value.mantissa <= 100 * Pow10(value.scale)

TerminalMessages ==
    {MsgAllCompleted, MsgPartial, MsgErrorOccurred(ErrorText)}
        \cup CaptionFailureMessages
        \cup {MsgMediaFailed(m, ErrorText) : m \in Modes}

\* C29: a worker that was started reaches the end of run_tasks, whatever
\* its calls do, provided they return or raise; it has then written a final
\* status that is a completion, partial-completion or failure message; and
\* once it has ended a click on a form with a URL and an option starts a
\* session again.
C29_SessionsTerminate ==
    /\ \A s \in Slots : (workers[s].pc # "idle") ~> Finished(workers[s])
    /\ [](\A s \in Slots :
            Finished(workers[s]) => FinalStatus(workers[s]) \in TerminalMessages)
    /\ []((NoWorkerAlive /\ ~UrlMissing(ui.url) /\ AnySelected(OptionsSelected(ui)))
            => ENABLED StartDownloadWhenIdle)

\* A session has ended with its completion message, its thread is gone and
\* the next session has been started.
C29_Witness ==
    /\ status = MsgAllCompleted
    /\ event.handler = "start_download"
    /\ event.outcome = "started"
    /\ workers[1].pc = "caption"
    /\ workers[1].log = <<>>

\* C30: once a session has ended, the video (audio) gauge does not show 100
\* if the video (audio) task of that session was selected and failed.
\* Violated: the media gauges are set by the progress events alone and are
\* never set back, neither when a session starts nor when a task fails.
C30_FullGaugeMeansSuccess ==
    \A s \in Slots :
        \A m \in Modes :
            (/\ Finished(workers[s])
             /\ workers[s].options_selected[m]
             /\ workers[s].outcome[m] = "failed")
                => progress[m] # Hundred

====
